---- MODULE Spec2Model ----
(***************************************************************************)
(* Tool-use conversation loop of the sample-agentic-ai-web driver scripts  *)
(* (03-loop, 04-invoke-tool, 06-human-in-loop, 08-type-scroll-tools,       *)
(* 10-mcp-client, 11-mcp-client) and the two context-management stages of  *)
(* 11-mcp-client (remove_media_except_last_turn, summarize_conversation),  *)
(* and the scroll and write_file effectors of 11-mcp-server.                *)
(*                                                                         *)
(* A message is [role, content]; a content item is a record whose field k  *)
(* names the single key the Bedrock item carries ("text", "toolUse",       *)
(* "toolResult", "image", "json").                                         *)
(***************************************************************************)
EXTENDS Integers, Sequences, FiniteSets, TLC

\* ------------------------------------------------------------------ bounds
\* Largest number of main model calls of one session.
MaxCalls == 4
\* Largest number of entries the artifact list may reach.
MaxArtifacts == 2
\* Largest number of effector failures one session reports back to the model.
MaxFaults == 1
\* Largest number of turns of a transcript handed to the stages on their own.
MaxTurns == 7
\* most compactions of one transcript when the stages run on their own
MaxCompactions == 2

\* ------------------------------------------------------- program constants
SUMMARIZATION_TOKEN_THRESHOLD == 5000
KEEP_LAST_TURNS == 2

Drivers == {"d03", "d04", "d06", "d08", "d10", "d11"}
\* drivers that reach the effectors through an MCP session
McpDrivers == {"d10", "d11"}
\* drivers that own a browser and run inside try/finally
BrowserDrivers == {"d06", "d08"}

\* tool names the model may emit
Names == {"navigate", "screenshot", "write_file", "unknown_tool"}

\* texts the model may emit; the second is whitespace only
WhitespaceOnly == {"", " "}

\* ----------------------------------------------------------- content items
Text(s) == [k |-> "text", text |-> s]
ToolUse(i, n) == [k |-> "toolUse", id |-> i, name |-> n]
ToolResult(i, c) == [k |-> "toolResult", id |-> i, content |-> c]
Json(v) == [k |-> "json", v |-> v]
Image == [k |-> "image"]
Msg(r, c) == [role |-> r, content |-> c]

INITIAL_PROMPT == Text("prompt")
PLACEHOLDER == Text("An image or document was removed for brevity.")

IsToolUse(it) == it.k = "toolUse"
IsToolResult(it) == it.k = "toolResult"
IsMedia(it) == it.k \in {"image", "json"}

\* json payloads that are a dict with a "text" key
TextPayloads == {"text", "text: error"}

\* str.strip() of a model text: empty exactly for whitespace-only texts
Strip(s) == IF s \in WhitespaceOnly THEN "" ELSE s

\* ------------------------------------------- filter_empty_text_content
\* variant: only the empty string counts as empty
KeepItem_nonempty(it) == it.k # "text" \/ it.text # ""

KeepItem(it) == it.k # "text" \/ Strip(it.text) # ""

filter_empty_text_content(message) ==
    [message EXCEPT !.content = SelectSeq(@, KeepItem)]

\* ------------------------------------ remove_media_except_last_turn
RECURSIVE LastUserIndexFrom(_, _)
\* index of the last user message at or below i, 0 when there is none
LastUserIndexFrom(msgs, i) ==
    IF i = 0 THEN 0
    ELSE IF msgs[i].role = "user" THEN i
    ELSE LastUserIndexFrom(msgs, i - 1)

LastUserIndex(msgs) == LastUserIndexFrom(msgs, Len(msgs))

\* variant: toolResult items are removed with the media
StripContent_results(content) ==
    LET new_content == SelectSeq(content, LAMBDA it : ~IsMedia(it) /\ ~IsToolResult(it))
        removed_media == \E j \in 1..Len(content) : IsMedia(content[j])
    IN  IF removed_media /\ new_content = <<>>
        THEN <<PLACEHOLDER>>
        ELSE new_content

\* the inner loop over one message's content (lines 105-124)
StripContent(content) ==
    LET new_content == SelectSeq(content, LAMBDA it : ~IsMedia(it))
        removed_media == \E j \in 1..Len(content) : IsMedia(content[j])
    IN  IF removed_media /\ new_content = <<>>
        THEN <<PLACEHOLDER>>
        ELSE new_content

remove_media_except_last_turn(msgs) ==
    IF Len(msgs) < 2 THEN msgs
    ELSE LET last_user_index == LastUserIndex(msgs)
         IN  [i \in 1..Len(msgs) |->
                IF (last_user_index # 0 /\ i >= last_user_index) \/ i = Len(msgs)
                THEN msgs[i]
                ELSE [msgs[i] EXCEPT !.content = StripContent(@)]]

\* ------------------------------------------------ summarize_conversation
\* outcomes of the call to the summarization model (lines 231-247)
SummaryCalls == {[ok |-> TRUE, text |-> "summary"], [ok |-> FALSE, text |-> ""]}

RECURSIVE CollectLast(_, _, _, _)
\* the backwards loop of lines 169-178; yields message_count
CollectLast(msgs, i, message_count, turn_count) ==
    LET mc == message_count + 1
        tc == IF msgs[i].role = "user" /\ i > 1 /\ msgs[i - 1].role = "assistant"
              THEN turn_count + 1
              ELSE turn_count
    IN  IF tc >= KEEP_LAST_TURNS \/ i = 1
        THEN mc
        ELSE CollectLast(msgs, i - 1, mc, tc)

\* variant: the last 2K messages whatever their roles
LastMessageCount_fixed(msgs) ==
    IF Len(msgs) < 2 * KEEP_LAST_TURNS THEN Len(msgs) ELSE 2 * KEEP_LAST_TURNS

LastMessageCount(msgs) == CollectLast(msgs, Len(msgs), 0, 0)

\* variant: the tail reaches one message further back
last_messages_with_pair(msgs) ==
    SubSeq(msgs, Len(msgs) - LastMessageCount(msgs), Len(msgs))

last_messages(msgs) ==
    SubSeq(msgs, Len(msgs) - LastMessageCount(msgs) + 1, Len(msgs))

to_summarize(msgs) == SubSeq(msgs, 2, Len(msgs) - LastMessageCount(msgs))

\* variant: the requests of the first message to summarize
tool_use_content_first(middle) ==
    IF middle # <<>> /\ middle[1].role = "assistant"
    THEN SelectSeq(middle[1].content, IsToolUse)
    ELSE <<>>

\* tool use requests of the last message to summarize (lines 191-200)
tool_use_content(middle) ==
    IF middle # <<>> /\ middle[Len(middle)].role = "assistant"
    THEN SelectSeq(middle[Len(middle)].content, IsToolUse)
    ELSE <<>>

\* variant: each request is inserted right after the text, reversing them
summary_message_reversed(summary_text, tool_uses) ==
    Msg("assistant",
        <<Text("[CONVERSATION SUMMARY: " \o summary_text \o "]")>>
            \o [j \in 1..Len(tool_uses) |-> tool_uses[Len(tool_uses) + 1 - j]])

summary_message(summary_text, tool_uses) ==
    Msg("assistant",
        <<Text("[CONVERSATION SUMMARY: " \o summary_text \o "]")>> \o tool_uses)

RECURSIVE CountItems(_, _, _)
\* number of items of kind k in the messages of role r (lines 281-292)
CountItems(msgs, r, k) ==
    IF msgs = <<>> THEN 0
    ELSE (IF Head(msgs).role = r
          THEN Len(SelectSeq(Head(msgs).content, LAMBDA it : it.k = k))
          ELSE 0) + CountItems(Tail(msgs), r, k)

tool_use_count(msgs) == CountItems(msgs, "assistant", "toolUse")
tool_result_count(msgs) == CountItems(msgs, "user", "toolResult")

\* variant: the summary turn is appended after the tail
summarized_result_summary_last(msgs, call) ==
    <<msgs[1]>> \o last_messages(msgs)
        \o <<summary_message(call.text, tool_use_content(to_summarize(msgs)))>>

\* variant: the first turn is summarized away with the rest
summarized_result_no_first(msgs, call) ==
    <<summary_message(call.text, tool_use_content(to_summarize(msgs)))>>
        \o last_messages(msgs)

\* variant: the second turn is kept as well as the first
summarized_result_after_second(msgs, call) ==
    <<msgs[1], msgs[2],
      summary_message(call.text, tool_use_content(to_summarize(msgs)))>>
        \o last_messages(msgs)

\* first message + summary + last X turns (lines 250-267)
summarized_result(msgs, call) ==
    <<msgs[1], summary_message(call.text, tool_use_content(to_summarize(msgs)))>>
        \o last_messages(msgs)

\* variant: no early return for a short transcript
summarize_path_no_short(msgs, call) ==
    IF to_summarize(msgs) = <<>> THEN "nomiddle"
    ELSE IF ~call.ok THEN "failed"
    ELSE IF tool_use_count(summarized_result(msgs, call))
              # tool_result_count(summarized_result(msgs, call)) THEN "mismatch"
    ELSE "summarized"

\* which return statement of summarize_conversation is taken
summarize_path(msgs, call) ==
    IF Len(msgs) <= KEEP_LAST_TURNS * 2 + 1 THEN "short"
    ELSE IF to_summarize(msgs) = <<>> THEN "nomiddle"
    ELSE IF ~call.ok THEN "failed"
    ELSE IF tool_use_count(summarized_result(msgs, call))
              # tool_result_count(summarized_result(msgs, call)) THEN "mismatch"
    ELSE "summarized"

\* variant: the failure is swallowed and the result is assembled anyway
summarize_conversation_unguarded(msgs, call) ==
    IF summarize_path(msgs, call) \in {"summarized", "failed"}
    THEN summarized_result(msgs, call)
    ELSE msgs

summarize_conversation(msgs, call) ==
    IF summarize_path(msgs, call) = "summarized"
    THEN summarized_result(msgs, call)
    ELSE msgs

\* ------------------------------------------------- effectors, local drivers
\* tool names a driver's if/elif chain recognises
Catalog(d) ==
    CASE d = "d03" -> {"navigate", "screenshot"}
      [] d = "d04" -> {"navigate", "screenshot"}
      [] d = "d06" -> {"navigate", "screenshot"}
      [] d = "d08" -> {"navigate", "screenshot"}
      [] OTHER     -> {"navigate", "screenshot", "write_file"}

\* effectors of the local drivers that await the browser and so may raise
LocalMayRaise(d, name) == d \in BrowserDrivers /\ name \in Catalog(d)

\* items one request adds to tool_content when its effector returns
LocalDispatch(d, name, tool_id) ==
    CASE d = "d03" -> <<ToolResult(tool_id, <<Json("tool_executed")>>)>>
      [] d \in {"d04", "d06"} ->
            <<ToolResult(tool_id,
                <<Json(CASE name = "navigate"   -> "title"
                         [] name = "screenshot" -> "filename"
                         [] OTHER               -> "empty")>>)>>
      [] d = "d08" ->
            CASE name = "navigate" -> <<ToolResult(tool_id, <<Json("title")>>)>>
              [] name = "screenshot" ->
                    <<ToolResult(tool_id, <<Json("filename"), Image>>)>>
              [] OTHER -> <<>>

\* --------------------------------------- effectors, MCP drivers (10 and 11)
\* the toolUseId the clients give their own get_page_info call
PAGE_INFO_ID == 0

URIs == {"artifact://s/r.md", "artifact://s/p.html"}

McpText == [type |-> "text", isError |-> FALSE]
\* the text content of a result the server flags isError
McpErrorText == [type |-> "text", isError |-> TRUE]
McpImage == [type |-> "image"]
McpResource(u) == [type |-> "resource", uri |-> u]
McpOther == [type |-> "audio"]

Returned(items) == [raised |-> FALSE, items |-> items, transport |-> FALSE]
\* call_tool raises: the tool failed, or the connection to the server did
Raised == [raised |-> TRUE, items |-> <<>>, transport |-> FALSE]
TransportFailed == [raised |-> TRUE, items |-> <<>>, transport |-> TRUE]

\* what session.call_tool may give back for a tool name
CallToolOutcomes(name) ==
    CASE name = "navigate"      -> {Returned(<<McpText>>), Raised}
      [] name = "screenshot"    -> {Returned(<<McpImage>>), Raised}
      [] name = "write_file"    -> {Returned(<<McpResource(u)>>) : u \in URIs}
                                       \cup {Raised}
      [] name = "get_page_info" -> {Returned(<<McpText>>), Returned(<<>>),
                                    Returned(<<McpOther>>), Raised}
      [] OTHER                  -> {Returned(<<McpErrorText>>), Raised}

\* what session.call_tool does on a session that is, or is no longer,
\* connected: once the connection is lost every call raises
SessionOutcomes(name, conn) ==
    IF conn THEN CallToolOutcomes(name) \cup {TransportFailed}
    ELSE {TransportFailed}

RECURSIVE bedrock_content(_)
\* the loop over result.content (lines 349-379)
bedrock_content(items) ==
    IF items = <<>> THEN <<>>
    ELSE LET it == Head(items)
         IN  (CASE it.type = "image"    -> <<Json("filename"), Image>>
                [] it.type = "text"     ->
                        <<Json(IF it.isError THEN "text: error" ELSE "text")>>
                [] it.type = "resource" -> <<Json(it.uri), Json("resource_text")>>
                [] OTHER                -> <<>>)
             \o bedrock_content(Tail(items))

\* variant: a uri is reported to the model but not recorded
tracked_uris_none(items) == <<>>

RECURSIVE tracked_uris(_)
\* the uris line 376 appends to artifact_uris, in order
tracked_uris(items) ==
    IF items = <<>> THEN <<>>
    ELSE (IF Head(items).type = "resource" THEN <<Head(items).uri>> ELSE <<>>)
         \o tracked_uris(Tail(items))

\* variant: every result is filed under the id of the page-info call
process_tool_request_one_id(tool_id, outcome) ==
    IF outcome.raised
    THEN ToolResult(PAGE_INFO_ID, <<Json("error")>>)
    ELSE ToolResult(PAGE_INFO_ID, bedrock_content(outcome.items))

process_tool_request(tool_id, outcome) ==
    IF outcome.raised
    THEN ToolResult(tool_id, <<Json("error")>>)
    ELSE ToolResult(tool_id, bedrock_content(outcome.items))

\* ------------------------------------------------------- the model endpoint
\* contents of a response that stops for tool use; write_file is asked for
\* only while the artifact list is below its bound
ToolUseContents(next_id, may_write) ==
    {<<Text(""), ToolUse(next_id, "unknown_tool")>>,
     <<ToolUse(next_id, "screenshot")>>}
        \cup (IF may_write
              THEN {<<Text("ok"), ToolUse(next_id, "navigate"),
                      ToolUse(next_id + 1, "write_file")>>}
              ELSE {})

\* the usage a response reports: <<>> when it reports none, else <<inputTokens>>
Usages(d) ==
    IF d = "d11"
    THEN {<<>>, <<SUMMARIZATION_TOKEN_THRESHOLD>>,
          <<SUMMARIZATION_TOKEN_THRESHOLD + 1>>}
    ELSE {<<>>}

\* response.get('usage', {}).get('inputTokens', 0)
InputTokens(resp) == IF resp.usage = <<>> THEN 0 ELSE resp.usage[1]

\* responses converse may return on the given call
Responses(d, next_id, calls, may_write) ==
    (IF calls < MaxCalls
     THEN {[content |-> c, stop |-> "tool_use", usage |-> u] :
              c \in ToolUseContents(next_id, may_write), u \in Usages(d)}
          \cup {[content |-> <<Text(" ")>>, stop |-> "max_tokens", usage |-> <<>>]}
     ELSE {})
    \cup {[content |-> <<Text("done")>>, stop |-> "end_turn", usage |-> <<>>]}

\* ------------------------------------------------------------------- state
VARIABLES
    driver,             \* which script runs
    pc,                 \* position of the script
    messages,           \* the transcript
    output_message,     \* the last assistant turn, filtered
    stop_reason,        \* stopReason of the last response
    input_tokens,       \* usage.inputTokens of the last response
    nb_request,         \* number of the model call being prepared or made
    tool_content,       \* content of the user turn under construction
    idx,                \* position in the requests (or in artifact_uris)
    artifact_uris,      \* the artifact list
    downloads,          \* outcome of each artifact download so far
    next_id,            \* next toolUseId the model hands out
    stage_input,        \* the transcript as it was handed to the stages
    processed_messages, \* output of stage A, which is the input of stage B
    summary_path,       \* return taken by stage B in this iteration
    nb_tool_use,        \* number of responses with stopReason tool_use
    nb_dispatch,        \* number of passes of the request loop and page lookups
    faults,             \* number of effector failures reported to the model
    raised,             \* ids of the requests whose effector raised
    nb_calls,           \* number of main model calls that returned
    compactions,        \* number of times stage B replaced the middle span
    response,           \* the last response of the main model, as received
    call_failed,        \* a main model call raised
    connected,          \* the MCP session still reaches its server
    scroll_y,           \* vertical scroll position of the page
    artefacts,          \* files of artefacts/{SESSION_ID}: name -> content
    host_call,          \* the effector invocation in progress or just made
    host_result,        \* what that invocation returned
    last_written,       \* per file, what the latest write_file was given and
                        \* the mimeType it reported
    playwright,         \* the automation runtime a script started itself
    browser             \* the browser a script launched itself

vars == <<driver, pc, messages, output_message, stop_reason, input_tokens,
          nb_request, tool_content, idx, artifact_uris, downloads, next_id,
          stage_input, processed_messages, summary_path, nb_tool_use,
          nb_dispatch, faults, raised, nb_calls, compactions, response,
          call_failed, connected, scroll_y, artefacts, host_call, host_result,
          last_written, playwright, browser>>

\* groups of variables an action leaves alone
response_vars == <<output_message, stop_reason, input_tokens, next_id,
                   nb_tool_use, nb_calls, response>>
artifact_vars == <<artifact_uris, downloads>>
stage_vars == <<stage_input, processed_messages, summary_path, compactions>>
host_vars == <<scroll_y, artefacts, host_call, host_result, last_written>>
browser_vars == <<playwright, browser>>

\* the toolUse items of the assistant turn, in order
Requests == SelectSeq(output_message.content, IsToolUse)

\* variant: the browser is closed at the end of the try body only
finally_block_on_success(d, exit) ==
    IF d \in BrowserDrivers /\ exit = "completed"
    THEN [playwright |-> "stopped", browser |-> "closed"]
    ELSE [playwright |-> playwright, browser |-> browser]

\* the finally block of run_example: browser.close(), then playwright.stop();
\* the other scripts start no browser and have no such block
finally_block(d, exit) ==
    IF d \in BrowserDrivers
    THEN [playwright |-> "stopped", browser |-> "closed"]
    ELSE [playwright |-> playwright, browser |-> browser]

\* the steps of run_example that precede its try block
SetupSteps == {"start", "launch", "new_page"}

\* before the first call no response has been received
NoResponse == [content |-> <<>>, stop |-> "none", usage |-> <<>>]

Init ==
    /\ driver \in Drivers
    /\ pc = IF driver \in BrowserDrivers THEN "setup" ELSE "call"
    /\ messages = <<Msg("user", <<INITIAL_PROMPT>>)>>
    /\ output_message = Msg("assistant", <<>>)
    /\ stop_reason = "none"
    /\ input_tokens = 0
    /\ nb_request = 1
    /\ tool_content = <<>>
    /\ idx = 1
    /\ artifact_uris = <<>>
    /\ downloads = <<>>
    /\ next_id = 1
    /\ stage_input = <<>>
    /\ processed_messages = <<>>
    /\ summary_path = "none"
    /\ nb_tool_use = 0
    /\ nb_dispatch = 0
    /\ faults = 0
    /\ raised = {}
    /\ nb_calls = 0
    /\ compactions = 0
    /\ response = NoResponse
    /\ call_failed = FALSE
    /\ connected = TRUE
    /\ scroll_y = 0
    /\ artefacts = <<>>
    /\ host_call = [name |-> "none"]
    /\ host_result = [returned |-> "nothing"]
    /\ last_written = <<>>
    /\ playwright = "none"
    /\ browser = "none"

\* variant: the loop runs until the model ends its turn
LoopContinues_until_end_turn(stop) == stop # "end_turn"

\* the condition of the while loop
LoopContinues(stop) == stop = "tool_use"

\* where the script goes once the while loop is left
AfterLoop(d) == IF d \in McpDrivers THEN "download" ELSE "completed"
\* variant: the failed step is tried again
AfterException_retry(d) == "call"

\* where an exception leaving the loop body ends: the MCP clients catch it in
\* run_client, the other scripts let it leave run_example
AfterException(d) == IF d \in McpDrivers THEN "failed" ELSE "crashed"

\* converse returns: filter, append, read stopReason
ModelCall ==
    /\ pc = "call"
    /\ \E resp \in Responses(driver, next_id, nb_request,
                               Len(artifact_uris) < MaxArtifacts) :
        /\ output_message' = filter_empty_text_content(Msg("assistant", resp.content))
        /\ messages' = Append(messages, output_message')
        /\ stop_reason' = resp.stop
        /\ input_tokens' = InputTokens(resp)
        /\ response' = resp
        /\ next_id' = next_id + Len(SelectSeq(resp.content, IsToolUse))
        /\ nb_tool_use' = IF resp.stop = "tool_use" THEN nb_tool_use + 1 ELSE nb_tool_use
        /\ pc' = IF LoopContinues(resp.stop) THEN "dispatch" ELSE AfterLoop(driver)
        /\ playwright' = IF LoopContinues(resp.stop) THEN playwright
                          ELSE finally_block(driver, AfterLoop(driver)).playwright
        /\ browser' = IF LoopContinues(resp.stop) THEN browser
                       ELSE finally_block(driver, AfterLoop(driver)).browser
    /\ nb_calls' = nb_calls + 1
    /\ tool_content' = <<>>
    /\ idx' = 1
    /\ summary_path' = "none"
    /\ UNCHANGED <<driver, call_failed, connected, host_vars, nb_request, artifact_vars, stage_input,
                   processed_messages, compactions, nb_dispatch, faults, raised>>

\* async_playwright().start(), chromium.launch() and new_page() all return
BrowserSetup ==
    /\ pc = "setup"
    /\ driver \in BrowserDrivers
    /\ pc' = "call"
    /\ playwright' = "running"
    /\ browser' = "open"
    /\ UNCHANGED <<driver, call_failed, connected, host_vars, messages, nb_request,
                   tool_content, idx, response_vars, artifact_vars, stage_vars,
                   nb_dispatch, faults, raised>>

\* one of the three steps raises: the try block is never entered, so what
\* the earlier steps started stays as it is
BrowserSetupFails ==
    /\ pc = "setup"
    /\ driver \in BrowserDrivers
    /\ \E step \in SetupSteps :
        /\ playwright' = IF step = "start" THEN "none" ELSE "running"
        /\ browser' = IF step = "new_page" THEN "open" ELSE "none"
    /\ pc' = "crashed"
    /\ UNCHANGED <<driver, call_failed, connected, host_vars, messages, nb_request,
                   tool_content, idx, response_vars, artifact_vars, stage_vars,
                   nb_dispatch, faults, raised>>

\* converse raises
ModelCallFails ==
    /\ pc = "call"
    /\ pc' = AfterException(driver)
    /\ call_failed' = TRUE
    /\ playwright' = finally_block(driver, AfterException(driver)).playwright
    /\ browser' = finally_block(driver, AfterException(driver)).browser
    /\ UNCHANGED <<driver, connected, host_vars, messages, nb_request, tool_content,
                   idx, response_vars, artifact_vars, stage_vars, nb_dispatch,
                   faults, raised>>

\* one pass of the for loop in a script that calls its effectors directly
DispatchLocal ==
    /\ pc = "dispatch"
    /\ driver \notin McpDrivers
    /\ idx <= Len(Requests)
    /\ tool_content' = tool_content \o LocalDispatch(driver, Requests[idx].name, Requests[idx].id)
    /\ idx' = idx + 1
    /\ nb_dispatch' = nb_dispatch + 1
    /\ UNCHANGED <<driver, call_failed, connected, host_vars, browser_vars, pc, messages, nb_request, response_vars,
                   artifact_vars, stage_vars, faults, raised>>

\* the effector raises: nothing in the loop catches it
DispatchLocalRaises ==
    /\ pc = "dispatch"
    /\ driver \notin McpDrivers
    /\ idx <= Len(Requests)
    /\ LocalMayRaise(driver, Requests[idx].name)
    /\ pc' = AfterException(driver)
    /\ raised' = raised \cup {Requests[idx].id}
    /\ playwright' = finally_block(driver, AfterException(driver)).playwright
    /\ browser' = finally_block(driver, AfterException(driver)).browser
    /\ nb_dispatch' = nb_dispatch + 1
    /\ UNCHANGED <<driver, call_failed, connected, host_vars, messages, nb_request, tool_content, idx, response_vars,
                   artifact_vars, stage_vars, faults>>

\* one pass of the for loop in the MCP clients
DispatchMcp ==
    /\ pc = "dispatch"
    /\ driver \in McpDrivers
    /\ idx <= Len(Requests)
    /\ \E outcome \in SessionOutcomes(Requests[idx].name, connected) :
        /\ (outcome.raised /\ connected) => faults < MaxFaults
        /\ faults' = IF outcome.raised /\ connected THEN faults + 1 ELSE faults
        /\ connected' = (connected /\ ~outcome.transport)
        /\ raised' = IF outcome.raised THEN raised \cup {Requests[idx].id} ELSE raised
        /\ tool_content' = Append(tool_content, process_tool_request(Requests[idx].id, outcome))
        /\ artifact_uris' = artifact_uris \o tracked_uris(outcome.items)
    /\ idx' = idx + 1
    /\ nb_dispatch' = nb_dispatch + 1
    /\ UNCHANGED <<driver, call_failed, host_vars, browser_vars, pc, messages, nb_request,
                   response_vars, downloads, stage_vars>>

\* what the page reports about itself
LocalPageInfo == "Title: 't', URL: 'u'"

\* the text extracted from the page-info result (lines 509-516 of client 11)
page_info_text(result) ==
    LET page_info_content == result.content[1]
    IN  IF page_info_content.k = "json"
        THEN (IF page_info_content.v \in TextPayloads
              THEN LocalPageInfo
              ELSE "{'" \o page_info_content.v \o "': ...}")
        ELSE "Page info not available"

browser_content(info) == Text("Current page: " \o info)

\* get_page_info of the scripts that own the page: it catches its own failure
LocalPageInfos == {LocalPageInfo, "Title: 'Unknown', URL: 'Unknown'"}

\* variant: stage B also runs at the threshold
threshold_exceeded_inclusive(tokens) == tokens >= SUMMARIZATION_TOKEN_THRESHOLD

\* the test of line 540
threshold_exceeded(tokens) == tokens > SUMMARIZATION_TOKEN_THRESHOLD

\* stage A, then stage B when the last response reported usage above the
\* threshold (lines 531-544 of client 11)
Compact(msgs, tokens, call) ==
    IF threshold_exceeded(tokens)
    THEN summarize_conversation(remove_media_except_last_turn(msgs), call)
    ELSE remove_media_except_last_turn(msgs)

CompactPath(msgs, tokens, call) ==
    IF threshold_exceeded(tokens)
    THEN summarize_path(remove_media_except_last_turn(msgs), call)
    ELSE "none"

\* end of the loop body in 03 and 04: append the user turn
SendResultsPlain ==
    /\ pc = "dispatch"
    /\ driver \in {"d03", "d04"}
    /\ idx > Len(Requests)
    /\ messages' = Append(messages, Msg("user", tool_content))
    /\ nb_request' = nb_request + 1
    /\ pc' = "call"
    /\ UNCHANGED <<driver, call_failed, connected, host_vars, browser_vars, tool_content, idx, response_vars, artifact_vars,
                   stage_vars, nb_dispatch, faults, raised>>

\* end of the loop body in 06 and 08: page info, then append the user turn
SendResultsBrowser ==
    /\ pc = "dispatch"
    /\ driver \in BrowserDrivers
    /\ idx > Len(Requests)
    /\ \E info \in LocalPageInfos :
        /\ info # LocalPageInfo => faults < MaxFaults
        /\ faults' = IF info # LocalPageInfo THEN faults + 1 ELSE faults
        /\ tool_content' = Append(tool_content, browser_content(info))
        /\ messages' = Append(messages, Msg("user", tool_content'))
    /\ nb_request' = nb_request + 1
    /\ nb_dispatch' = nb_dispatch + 1
    /\ pc' = "call"
    /\ UNCHANGED <<driver, call_failed, connected, host_vars, browser_vars, idx, response_vars, artifact_vars, stage_vars, raised>>

\* end of the loop body in the MCP clients: page info through the session,
\* append the user turn, and in client 11 the two context stages
SendResultsMcp ==
    /\ pc = "dispatch"
    /\ driver \in McpDrivers
    /\ idx > Len(Requests)
    /\ \E outcome \in SessionOutcomes("get_page_info", connected), call \in SummaryCalls :
        LET page_info_result == process_tool_request(PAGE_INFO_ID, outcome)
            content == Append(tool_content, browser_content(page_info_text(page_info_result)))
            appended == Append(messages, Msg("user", content))
        IN  IF page_info_result.content = <<>>
            THEN \* content[0] raises IndexError, caught in run_client
                 /\ pc' = AfterException(driver)
                 /\ UNCHANGED <<messages, tool_content, nb_request, stage_vars,
                                faults, connected>>
            ELSE /\ (outcome.raised /\ connected) => faults < MaxFaults
                 /\ faults' = IF outcome.raised /\ connected THEN faults + 1 ELSE faults
                 /\ connected' = (connected /\ ~outcome.transport)
                 /\ tool_content' = content
                 /\ IF driver = "d11"
                    THEN /\ stage_input' = appended
                         /\ processed_messages' = remove_media_except_last_turn(appended)
                         /\ summary_path' = CompactPath(appended, input_tokens, call)
                         /\ messages' = Compact(appended, input_tokens, call)
                         /\ compactions' = IF summary_path' = "summarized"
                                           THEN compactions + 1 ELSE compactions
                    ELSE /\ messages' = appended
                         /\ UNCHANGED stage_vars
                 /\ nb_request' = nb_request + 1
                 /\ pc' = "call"
    /\ nb_dispatch' = nb_dispatch + 1
    /\ UNCHANGED <<driver, call_failed, host_vars, browser_vars, idx, response_vars, artifact_vars,
                   raised>>

\* what reading one artifact may come to: read_resource raises on a session
\* that lost its server
DownloadResults(conn) == IF conn THEN {"downloaded", "error"} ELSE {"error"}

\* variant: the failure of one download leaves the loop
AfterDownload_abort(result) ==
    IF result = "error" THEN "failed" ELSE "download"

\* where the script is after one pass of the download loop: the try/except
\* inside the for keeps it in the loop
AfterDownload(result) == "download"

\* one pass of the download loop (lines 563-598 of client 11)
Download ==
    /\ pc = "download"
    /\ idx <= Len(artifact_uris)
    /\ \E result \in DownloadResults(connected) :
        /\ downloads' = Append(downloads, [uri |-> artifact_uris[idx], result |-> result])
        /\ pc' = AfterDownload(result)
    /\ idx' = idx + 1
    /\ UNCHANGED <<driver, call_failed, connected, host_vars, browser_vars, messages, nb_request,
                   tool_content, response_vars, artifact_uris, stage_vars,
                   nb_dispatch, faults, raised>>

\* "Task completed"
Complete ==
    /\ pc = "download"
    /\ idx > Len(artifact_uris)
    /\ pc' = "completed"
    /\ UNCHANGED <<driver, call_failed, connected, host_vars, browser_vars, messages, nb_request, tool_content, idx, response_vars,
                   artifact_vars, stage_vars, nb_dispatch, faults, raised>>

Next ==
    \/ BrowserSetup
    \/ BrowserSetupFails
    \/ ModelCall
    \/ ModelCallFails
    \/ DispatchLocal
    \/ DispatchLocalRaises
    \/ DispatchMcp
    \/ SendResultsPlain
    \/ SendResultsBrowser
    \/ SendResultsMcp
    \/ Download
    \/ Complete

Spec == Init /\ [][Next]_vars

\* ------------------------------------------- the two stages on their own
\* A second specification hands the stages transcripts that need not come
\* from a session: user and assistant turns alternate, an assistant turn may
\* be empty, a user turn may leave requests unanswered or hold bare media.

AssistantContents(id) ==
    {<<>>,
     <<Text("ok")>>,
     <<ToolUse(id, "screenshot")>>,
     <<Text("ok"), ToolUse(id, "navigate"), ToolUse(id + 1, "write_file")>>}

\* one toolResult per request, in order, with the given inner content
Answer(requests, inner) ==
    [j \in 1..Len(requests) |-> ToolResult(requests[j].id, inner)]

UserContents(previous) ==
    LET requests == SelectSeq(previous.content, IsToolUse)
        ambient == browser_content(LocalPageInfo)
    IN  {Answer(requests, <<Json("text")>>) \o <<ambient>>,
         Answer(requests, <<Json("filename"), Image>>) \o <<ambient>>,
         <<ambient>>,
         <<Json("document"), Image>>}

InitFn ==
    /\ driver = "stages"
    /\ pc = "build"
    /\ messages = <<Msg("user", <<INITIAL_PROMPT>>)>>
    /\ stage_input = <<>>
    /\ output_message = Msg("assistant", <<>>)
    /\ stop_reason = "none"
    /\ input_tokens = 0
    /\ nb_request = 1
    /\ tool_content = <<>>
    /\ idx = 1
    /\ artifact_uris = <<>>
    /\ downloads = <<>>
    /\ next_id = 1
    /\ processed_messages = <<>>
    /\ summary_path = "none"
    /\ nb_tool_use = 0
    /\ nb_dispatch = 0
    /\ faults = 0
    /\ raised = {}
    /\ nb_calls = 0
    /\ compactions = 0
    /\ response = NoResponse
    /\ call_failed = FALSE
    /\ connected = TRUE
    /\ scroll_y = 0
    /\ artefacts = <<>>
    /\ host_call = [name |-> "none"]
    /\ host_result = [returned |-> "nothing"]
    /\ last_written = <<>>
    /\ playwright = "none"
    /\ browser = "none"

fn_fixed == <<driver, call_failed, connected, host_vars, browser_vars, response, output_message, stop_reason, input_tokens, nb_request,
              tool_content, idx, artifact_uris, downloads, nb_tool_use,
              nb_dispatch, faults, raised, nb_calls>>

\* the transcript grows by an assistant turn
FnAppendAssistant ==
    /\ pc = "build"
    /\ Len(messages) < MaxTurns
    /\ messages[Len(messages)].role = "user"
    /\ \E content \in AssistantContents(next_id) :
        /\ messages' = Append(messages, Msg("assistant", content))
        /\ next_id' = next_id + Len(SelectSeq(content, IsToolUse))
    /\ UNCHANGED <<fn_fixed, pc, stage_input, processed_messages, summary_path,
                   compactions>>

\* the transcript grows by a user turn
FnAppendUser ==
    /\ pc = "build"
    /\ Len(messages) < MaxTurns
    /\ messages[Len(messages)].role = "assistant"
    /\ \E content \in UserContents(messages[Len(messages)]) :
        messages' = Append(messages, Msg("user", content))
    /\ UNCHANGED <<fn_fixed, pc, next_id, stage_input, processed_messages,
                   summary_path, compactions>>

\* remove_media_except_last_turn(messages)
FnStageA ==
    /\ pc = "build"
    /\ stage_input' = messages
    /\ processed_messages' = remove_media_except_last_turn(messages)
    /\ messages' = processed_messages'
    /\ pc' = "stage_a"
    /\ UNCHANGED <<fn_fixed, next_id, summary_path, compactions>>

\* summarize_conversation(messages, bedrock_client)
FnStageB ==
    /\ pc = "build"
    /\ \E call \in SummaryCalls :
        /\ stage_input' = messages
        /\ processed_messages' = messages
        /\ summary_path' = summarize_path(messages, call)
        /\ messages' = summarize_conversation(messages, call)
        /\ compactions' = IF summary_path' = "summarized"
                          THEN compactions + 1 ELSE compactions
    /\ pc' = "stage_b"
    /\ UNCHANGED <<fn_fixed, next_id>>

\* the loop goes on with the compacted transcript, which grows again and
\* is handed to the stages once more
FnResume ==
    /\ pc = "stage_b"
    /\ summary_path = "summarized"
    /\ compactions < MaxCompactions
    /\ pc' = "build"
    /\ UNCHANGED <<fn_fixed, messages, next_id, stage_input, processed_messages,
                   summary_path, compactions>>

NextFn ==
    \/ FnAppendAssistant
    \/ FnAppendUser
    \/ FnStageA
    \/ FnStageB
    \/ FnResume

SpecFn == InitFn /\ [][NextFn]_vars

\* ------------------------------------------------ the effectors of the host
\* A third specification calls the effectors of 11-mcp-server.py one after
\* the other, with arguments drawn from small sets, and hands what write_file
\* returns to the client's process_tool_request.

SESSION_ID == "s"

\* largest vertical scroll position of the page
MaxScroll == 3

Directions == {"down", "up", "Down", "UP", "sideways", ""}
Amounts == {1, 2}

\* variant: the direction is compared as it was given
Lower_verbatim(s) == s

\* str.lower() on the directions above
Lower(s) ==
    CASE s = "Down" -> "down"
      [] s = "UP"   -> "up"
      [] OTHER      -> s

\* window.scrollBy(0, dy): the browser keeps the position within the page
scrollBy(y, dy) ==
    IF y + dy < 0 THEN 0
    ELSE IF y + dy > MaxScroll THEN MaxScroll
    ELSE y + dy

\* the branch of scroll that awaits page.evaluate, and so may raise
scroll_awaits_page(direction) == Lower(direction) \in {"down", "up"}

\* position of the page after scroll(direction, amount) returned
scroll_position(y, direction, amount) ==
    IF Lower(direction) = "down" THEN scrollBy(y, amount)
    ELSE IF Lower(direction) = "up" THEN scrollBy(y, 0 - amount)
    ELSE y

\* the dict scroll(direction, amount) returns
scroll(direction, amount) ==
    IF Lower(direction) = "down" \/ Lower(direction) = "up"
    THEN [type |-> "dict", scrolled |-> TRUE, direction |-> direction,
          amount |-> amount]
    ELSE [type |-> "dict", scrolled |-> FALSE,
          error |-> "Invalid direction: " \o direction]

\* an effector left by an exception
HostRaised == [type |-> "raised"]

\* file names, cut where str.endswith looks: the last piece is the suffix
\* from the last dot on (the whole name when it has no dot)
Filenames ==
    {<<"r", ".md">>, <<"p", ".html">>, <<"d", ".json">>, <<"a", ".md", ".bak">>}

RECURSIVE Join(_)
\* the file name as one string
Join(pieces) == IF pieces = <<>> THEN "" ELSE Head(pieces) \o Join(Tail(pieces))

endswith(filename, suffix) == filename[Len(filename)] = suffix

\* number of characters of the content write_file echoes in its result
PreviewLength == 100

\* contents of a file, as sequences of characters: one longer than the
\* preview, and a short one with a line that ends in carriage return and
\* line feed ("CR" and "LF" stand for the two characters)
Contents ==
    {[i \in 1..(PreviewLength + 1) |-> "x"], <<"a", "CR", "LF", "b">>}

\* os.linesep of a POSIX platform
linesep == <<"LF">>

RECURSIVE text_write(_, _)
\* what f.write(content) puts in a file opened in text mode 'w': every line
\* feed becomes os.linesep (computed half by half)
text_write(content, sep) ==
    IF content = <<>> THEN <<>>
    ELSE IF Len(content) = 1
         THEN (IF content[1] = "LF" THEN sep ELSE content)
         ELSE LET half == Len(content) \div 2
              IN  text_write(SubSeq(content, 1, half), sep)
                    \o text_write(SubSeq(content, half + 1, Len(content)), sep)

\* what f.read() gives for a file opened in text mode 'r': a carriage
\* return, with the line feed that follows it if any, is read as a line feed
text_read(chars) ==
    LET after == [i \in 1..Len(chars) |->
                    [c |-> chars[i],
                     follows_cr |-> i > 1 /\ chars[i - 1] = "CR"]]
        kept == SelectSeq(after, LAMBDA x : ~(x.c = "LF" /\ x.follows_cr))
    IN  [i \in 1..Len(kept) |-> IF kept[i].c = "CR" THEN "LF" ELSE kept[i].c]

\* content[:100]
Preview(content) ==
    SubSeq(content, 1, IF Len(content) < PreviewLength THEN Len(content) ELSE PreviewLength)

\* variant: every artifact is reported as plain text
mime_type_plain(filename) == "text/plain"

\* the MIME type write_file derives from the file name (lines 259-265)
mime_type(filename) ==
    IF endswith(filename, ".md") THEN "text/markdown"
    ELSE IF endswith(filename, ".html") THEN "text/html"
    ELSE IF endswith(filename, ".json") THEN "application/json"
    ELSE "text/plain"

resource_uri(filename) == "artifact://" \o SESSION_ID \o "/" \o Join(filename)

\* what write_file returns when the file was written
write_file(filename, content) ==
    [type |-> "resource", uri |-> resource_uri(filename),
     mimeType |-> mime_type(filename), text |-> Preview(content)]

\* what write_file returns when open() or write() raised
write_file_failed == [type |-> "dict", written |-> FALSE, error |-> "error"]

\* the files of the artefacts directory after filename was written
written(files, filename, content) ==
    [n \in (DOMAIN files) \cup {Join(filename)} |->
        IF n = Join(filename) THEN content ELSE files[n]]

\* the uris a client resolves: every file name under this server's session
\* id, and one under another session id
ArtifactRequests ==
    {[session_id |-> SESSION_ID, filename |-> f] : f \in Filenames}
        \cup {[session_id |-> "other", filename |-> <<"r", ".md">>]}

\* the MIME type get_artifact derives from the file name (lines 75-82)
artifact_mime_type(filename) ==
    IF endswith(filename, ".md") THEN "text/markdown"
    ELSE IF endswith(filename, ".html") THEN "text/html"
    ELSE IF endswith(filename, ".json") THEN "application/json"
    ELSE "text/plain"

\* variant: the resource carries the preview write_file returned
get_artifact_preview(session_id, filename, files, read_ok) ==
    LET uri == "artifact://" \o session_id \o "/" \o Join(filename)
    IN  IF session_id # SESSION_ID \/ Join(filename) \notin DOMAIN files
        THEN [type |-> "resource", uri |-> uri, mimeType |-> "text/plain",
              text |-> <<"Error: Artifact not found: " \o Join(filename)>>]
        ELSE IF ~read_ok
        THEN [type |-> "resource", uri |-> uri, mimeType |-> "text/plain",
              text |-> <<"Error: error">>]
        ELSE [type |-> "resource", uri |-> uri,
              mimeType |-> artifact_mime_type(filename),
              text |-> Preview(text_read(files[Join(filename)]))]

\* what get_artifact(session_id, filename) returns, given the files of
\* artefacts/{SESSION_ID} (no other session has a directory) and whether
\* open() and read() succeed
get_artifact(session_id, filename, files, read_ok) ==
    LET uri == "artifact://" \o session_id \o "/" \o Join(filename)
    IN  IF session_id # SESSION_ID \/ Join(filename) \notin DOMAIN files
        THEN [type |-> "resource", uri |-> uri, mimeType |-> "text/plain",
              text |-> <<"Error: Artifact not found: " \o Join(filename)>>]
        ELSE IF ~read_ok
        THEN [type |-> "resource", uri |-> uri, mimeType |-> "text/plain",
              text |-> <<"Error: error">>]
        ELSE [type |-> "resource", uri |-> uri,
              mimeType |-> artifact_mime_type(filename),
              text |-> text_read(files[Join(filename)])]

\* title and url of the page the browser shows
PageTitle == "t"
PageUrl == "u"

\* variant: a failed lookup is not caught
get_page_info_uncaught(page_ok) ==
    IF page_ok
    THEN [type |-> "dict", title |-> PageTitle, url |-> PageUrl]
    ELSE HostRaised

\* get_page_info(page) of the scripts that own the page
get_page_info(page_ok) ==
    IF page_ok
    THEN [type |-> "dict", title |-> PageTitle, url |-> PageUrl]
    ELSE [type |-> "dict", title |-> "Unknown", url |-> "Unknown"]

\* get_page_info(ctx) of the server: a string either way
server_get_page_info(page_ok) ==
    IF page_ok
    THEN [type |-> "str",
          text |-> "Current page: Title: '" \o PageTitle \o "', URL: '"
                      \o PageUrl \o "'"]
    ELSE [type |-> "str", text |-> "Error getting page info: error"]

\* the content list the client receives for a returned value: an
\* EmbeddedResource travels as it is, a dict as one text item
host_content(value) ==
    IF value.type = "resource" THEN <<value>> ELSE <<McpText>>

InitHost ==
    /\ driver = "host"
    /\ pc = "host"
    /\ messages = <<Msg("user", <<INITIAL_PROMPT>>)>>
    /\ output_message = Msg("assistant", <<>>)
    /\ stop_reason = "none"
    /\ input_tokens = 0
    /\ nb_request = 1
    /\ tool_content = <<>>
    /\ idx = 1
    /\ artifact_uris = <<>>
    /\ downloads = <<>>
    /\ next_id = 1
    /\ stage_input = <<>>
    /\ processed_messages = <<>>
    /\ summary_path = "none"
    /\ nb_tool_use = 0
    /\ nb_dispatch = 0
    /\ faults = 0
    /\ raised = {}
    /\ nb_calls = 0
    /\ compactions = 0
    /\ response = NoResponse
    /\ call_failed = FALSE
    /\ connected = TRUE
    /\ scroll_y = 0
    /\ artefacts = <<>>
    /\ host_call = [name |-> "none"]
    /\ host_result = [returned |-> "nothing"]
    /\ last_written = <<>>
    /\ playwright = "none"
    /\ browser = "none"

host_fixed == <<driver, pc, messages, output_message, stop_reason, input_tokens,
                nb_request, idx, downloads, next_id, stage_vars, nb_tool_use,
                nb_dispatch, faults, raised, nb_calls, response, call_failed,
                connected, browser_vars>>

\* scroll(direction, amount) on the server (and in 08-type-scroll-tools.py)
HostScroll ==
    /\ pc = "host"
    /\ \E direction \in Directions, amount \in Amounts, page_ok \in BOOLEAN :
        /\ page_ok \/ scroll_awaits_page(direction)
        /\ host_call' = [name |-> "scroll", direction |-> direction, amount |-> amount]
        /\ IF scroll_awaits_page(direction) /\ ~page_ok
           THEN /\ host_result' = HostRaised
                /\ scroll_y' = scroll_y
           ELSE /\ host_result' = scroll(direction, amount)
                /\ scroll_y' = scroll_position(scroll_y, direction, amount)
    /\ UNCHANGED <<host_fixed, artefacts, last_written, tool_content, artifact_uris>>

\* write_file(filename, content) on the server, and the client's handling of
\* what it returned
HostWriteFile ==
    /\ pc = "host"
    /\ Len(artifact_uris) < MaxArtifacts
    /\ \E filename \in Filenames, content \in Contents, disk_ok \in BOOLEAN :
        /\ host_call' = [name |-> "write_file", filename |-> filename, content |-> content]
        /\ host_result' = IF disk_ok THEN write_file(filename, content)
                          ELSE write_file_failed
        /\ artefacts' = IF disk_ok
                        THEN written(artefacts, filename, text_write(content, linesep))
                        ELSE artefacts
        /\ last_written' = IF disk_ok
                           THEN written(last_written, filename,
                                        [content |-> content,
                                         mimeType |-> host_result'.mimeType])
                           ELSE last_written
        /\ LET outcome == Returned(host_content(host_result'))
           IN  /\ tool_content' = <<process_tool_request(next_id, outcome)>>
               /\ artifact_uris' = artifact_uris \o tracked_uris(outcome.items)
    /\ UNCHANGED <<host_fixed, scroll_y>>

\* the client resolves artifact://{session_id}/{filename}
HostGetArtifact ==
    /\ pc = "host"
    /\ \E request \in ArtifactRequests, read_ok \in BOOLEAN :
        /\ read_ok \/ (request.session_id = SESSION_ID
                         /\ Join(request.filename) \in DOMAIN artefacts)
        /\ host_call' = [name |-> "get_artifact", session_id |-> request.session_id,
                         filename |-> request.filename, read_ok |-> read_ok]
        /\ host_result' = get_artifact(request.session_id, request.filename,
                                       artefacts, read_ok)
    /\ UNCHANGED <<host_fixed, scroll_y, artefacts, last_written, tool_content,
                   artifact_uris>>

\* get_page_info, of a script that owns the page or of the server
HostPageInfo ==
    /\ pc = "host"
    /\ \E owner \in {"script", "server"}, page_ok \in BOOLEAN :
        /\ host_call' = [name |-> "get_page_info", owner |-> owner,
                         page_ok |-> page_ok]
        /\ host_result' = IF owner = "script" THEN get_page_info(page_ok)
                          ELSE server_get_page_info(page_ok)
    /\ UNCHANGED <<host_fixed, scroll_y, artefacts, last_written, tool_content,
                   artifact_uris>>

NextHost ==
    \/ HostScroll
    \/ HostWriteFile
    \/ HostGetArtifact
    \/ HostPageInfo

SpecHost == InitHost /\ [][NextHost]_vars

\* ------------------------------------------------------------ properties
\* number of toolResult items of message m that carry the id
Answers(m, id) ==
    Cardinality({j \in 1..Len(m.content) :
                    IsToolResult(m.content[j]) /\ m.content[j].id = id})

\* every toolUse of an assistant turn but the last turn is answered by exactly
\* one toolResult with its id in the following turn
Paired(msgs) ==
    \A i \in 1..(Len(msgs) - 1) :
        msgs[i].role = "assistant" =>
            \A j \in 1..Len(msgs[i].content) :
                IsToolUse(msgs[i].content[j]) =>
                    /\ msgs[i + 1].role = "user"
                    /\ Answers(msgs[i + 1], msgs[i].content[j].id) = 1

RequestsOf(m) == SelectSeq(m.content, IsToolUse)
RequestIds(m) == {RequestsOf(m)[j].id : j \in 1..Len(RequestsOf(m))}
ResultIds(m) == {m.content[j].id : j \in {n \in 1..Len(m.content) : IsToolResult(m.content[n])}}

\* Paired, and no request is left without a following turn
WellPaired(msgs) ==
    /\ Paired(msgs)
    /\ msgs # <<>> => RequestsOf(msgs[Len(msgs)]) = <<>>

\* C1: in every driver, at every model call after the first, each toolUse of
\* an assistant turn is answered by exactly one toolResult with the same id
\* in the next user turn, whatever tool name the model emitted.
C1_EveryRequestAnswered ==
    (pc = "call" /\ nb_request > 1) => Paired(messages)

\* C2: whenever an effector raises during dispatch, that step appends the
\* toolResult [request id, one json item {error: message}] and the script
\* stays in its loop; the session is not aborted.
C2_RaiseBecomesErrorResult ==
    [][raised' # raised =>
          /\ pc' = "dispatch"
          /\ tool_content' =
                Append(tool_content, ToolResult(Requests[idx].id, <<Json("error")>>))]_vars

\* json payloads that report a failure to the model
ErrorPayloads == {"error", "text: error"}

\* a toolResult for the id whose first content item reports a failure
IsErrorResult(it, id) ==
    /\ IsToolResult(it)
    /\ it.id = id
    /\ it.content # <<>>
    /\ it.content[1].k = "json"
    /\ it.content[1].v \in ErrorPayloads

\* C3: a dispatch pass over a request whose name is not in the effector
\* catalog appends an error toolResult for that id and the script stays in
\* its loop.
C3_UnknownToolGetsErrorResult ==
    [][(/\ pc = "dispatch"
        /\ idx <= Len(Requests)
        /\ nb_dispatch' # nb_dispatch
        /\ Requests[idx].name \notin Catalog(driver)) =>
          /\ pc' = "dispatch"
          /\ Len(tool_content') = Len(tool_content) + 1
          /\ IsErrorResult(tool_content'[Len(tool_content')], Requests[idx].id)]_vars

\* C4: handed a transcript in which every request is answered by one result
\* with its id in the next turn, summarize_conversation returns a transcript
\* with the same property and equal request and result counts, or a
\* transcript equal to the one it was handed.
C4_SummarizeKeepsPairing ==
    (pc = "stage_b" /\ WellPaired(processed_messages)) =>
        \/ /\ WellPaired(messages)
           /\ tool_use_count(messages) = tool_result_count(messages)
        \/ messages = processed_messages

\* a summarization that carried pending requests into the summary turn
C4_Witness ==
    /\ pc = "stage_b"
    /\ WellPaired(processed_messages)
    /\ summary_path = "summarized"
    /\ messages # processed_messages
    /\ RequestsOf(messages[2]) # <<>>

\* an item that is, or holds, an image or a structured payload
CarriesMedia(it) ==
    \/ IsMedia(it)
    \/ IsToolResult(it) /\ \E j \in 1..Len(it.content) : IsMedia(it.content[j])

\* the turns of the most recent exchange: the last user turn, the assistant
\* turn before it and whatever follows it
RecentExchange(msgs) == {i \in 1..Len(msgs) : i >= LastUserIndex(msgs) - 1}

NoMediaBeforeLastExchange(msgs) ==
    \A i \in (1..Len(msgs)) \ RecentExchange(msgs) :
        \A j \in 1..Len(msgs[i].content) : ~CarriesMedia(msgs[i].content[j])

\* C5: in client 11, the output of stage A has no image and no structured
\* payload outside the most recent exchange, neither as a content item of a
\* turn nor inside a toolResult.
C5_NoMediaOutsideLastExchange ==
    (driver = "d11" /\ pc = "call" /\ nb_request > 1) =>
        NoMediaBeforeLastExchange(processed_messages)

\* C6: the output of stage A has no turn with empty content.
C6_StageALeavesNoEmptyTurn ==
    pc = "stage_a" => \A i \in 1..Len(messages) : messages[i].content # <<>>

\* the tail a summarizing stage B kept, and the turn just before it
KeptTail(out) == SubSeq(out, 3, Len(out))
LastOf(T, n) == SubSeq(T, Len(T) - n + 1, Len(T))

TailLength(T) ==
    IF T[Len(T)].role = "user"
    THEN 2 * KEEP_LAST_TURNS - 1
    ELSE 2 * KEEP_LAST_TURNS

LastReplaced(T, out) == T[Len(T) - Len(KeptTail(out))]

\* C8: when stage B summarizes and the last turn of the middle span is an
\* assistant turn with tool requests, the summary turn holds exactly those
\* requests, unchanged and in order, and every toolResult id in the first
\* turn of the kept tail is the id of a request of the summary turn.
C8_PendingRequestsCarried ==
    (driver = "d11" /\ summary_path = "summarized") =>
        LET pending == LastReplaced(processed_messages, messages)
        IN  (pending.role = "assistant" /\ RequestsOf(pending) # <<>>) =>
                /\ RequestsOf(messages[2]) = RequestsOf(pending)
                /\ ResultIds(messages[3]) \subseteq RequestIds(messages[2])
                /\ ResultIds(messages[3]) # {}

\* client 11 summarized over an assistant turn that asked for two tools
C8_Witness ==
    /\ driver = "d11"
    /\ summary_path = "summarized"
    /\ Len(RequestsOf(LastReplaced(processed_messages, messages))) = 2
    /\ Len(RequestsOf(messages[2])) = 2

\* C9: when the summarization call fails, stage B hands back a transcript
\* equal to the one it was given (the output of stage A) and the script goes
\* on to the next main model call.
C9_SummaryFailureFallsBack ==
    [][(summary_path # "failed" /\ summary_path' = "failed") =>
          /\ pc' = "call"
          /\ messages' = processed_messages'
          /\ nb_request' = nb_request + 1]_vars

\* the summarizer failed on a transcript long enough to be summarized and
\* the session went on to a further main model call
C9_Witness ==
    /\ driver = "d11"
    /\ summary_path = "failed"
    /\ pc = "call"
    /\ Len(messages) > 2 * KEEP_LAST_TURNS + 1

\* C10: absent compaction, a session whose model stopped for tool use k
\* times and then stopped otherwise has made k+1 model calls and holds 2k+2
\* turns; after the first response that does not stop for tool use nothing
\* is dispatched, called or appended.
C10_LoopEndsOnFirstNonToolStop ==
    /\ []((pc \in {"download", "completed"} /\ compactions = 0) =>
            /\ stop_reason # "tool_use"
            /\ nb_calls = nb_tool_use + 1
            /\ nb_request = nb_calls
            /\ Len(messages) = 2 * nb_tool_use + 2)
    /\ [][(stop_reason \notin {"none", "tool_use"}) =>
            /\ nb_dispatch' = nb_dispatch
            /\ nb_calls' = nb_calls
            /\ messages' = messages]_vars

\* a session of client 10 that ended after one tool round: four turns
C10_Witness ==
    /\ driver = "d10"
    /\ pc = "completed"
    /\ nb_tool_use = 1
    /\ nb_calls = 2
    /\ Len(messages) = 4

IdsOf(items) == [j \in 1..Len(items) |-> items[j].id]
ResultsOf(m) == SelectSeq(m.content, IsToolResult)

RECURSIVE IsSubsequence(_, _)
\* a is b with some elements left out
IsSubsequence(a, b) ==
    IF a = <<>> THEN TRUE
    ELSE IF b = <<>> THEN FALSE
    ELSE IF Head(a) = Head(b) THEN IsSubsequence(Tail(a), Tail(b))
    ELSE IsSubsequence(a, Tail(b))

\* C12: within one iteration the requests are dispatched one at a time in
\* the order of the assistant turn (each pass handles request idx and moves to
\* idx + 1, adding only results that carry that request's id at the end of
\* the collection); the toolResults of the appended user turn are in request
\* order, each with its own request's id.
C12_DispatchInRequestOrder ==
    /\ [](pc = "dispatch" =>
            /\ \A j \in 1..Len(tool_content) : IsToolResult(tool_content[j])
            /\ IsSubsequence(IdsOf(tool_content), IdsOf(SubSeq(Requests, 1, idx - 1)))
            /\ driver # "d08" =>
                  IdsOf(tool_content) = IdsOf(SubSeq(Requests, 1, idx - 1)))
    /\ []((pc = "call" /\ nb_request > 1) =>
            LET turn == messages[Len(messages)]
                asked == messages[Len(messages) - 1]
            IN  /\ IsSubsequence(IdsOf(ResultsOf(turn)), IdsOf(RequestsOf(asked)))
                /\ driver # "d08" =>
                      IdsOf(ResultsOf(turn)) = IdsOf(RequestsOf(asked)))
    /\ [][(/\ pc = "dispatch"
           /\ idx <= Len(Requests)
           /\ nb_dispatch' # nb_dispatch
           /\ pc' = "dispatch") =>
             /\ idx' = idx + 1
             /\ Len(tool_content') \in {Len(tool_content), Len(tool_content) + 1}
             /\ SubSeq(tool_content', 1, Len(tool_content)) = tool_content
             /\ \A j \in (Len(tool_content) + 1)..Len(tool_content') :
                   /\ IsToolResult(tool_content'[j])
                   /\ tool_content'[j].id = Requests[idx].id]_vars

\* an MCP client answered two requests of one assistant turn, in their order
C12_Witness ==
    /\ driver \in McpDrivers
    /\ pc = "call"
    /\ nb_request > 1
    /\ Len(RequestsOf(messages[Len(messages) - 1])) = 2
    /\ IdsOf(ResultsOf(messages[Len(messages)]))
          = IdsOf(RequestsOf(messages[Len(messages) - 1]))
    /\ IdsOf(ResultsOf(messages[Len(messages)]))[1]
          # IdsOf(ResultsOf(messages[Len(messages)]))[2]

\* C13 as claimed: when the connection to the effector host is lost during a
\* tool invocation, that step ends the session with the error surfaced, and
\* no main model call is made on a session that lost its host.
C13_TransportFailureIsFatal ==
    [][/\ (connected /\ ~connected') => pc' = "failed"
       /\ ~connected => nb_calls' = nb_calls]_vars

\* C14: a main model call that fails is not retried: the script is then at
\* its end with the error surfaced, and from there it makes no model call,
\* dispatches nothing, appends nothing and downloads nothing.
C14_ModelCallFailureIsFatal ==
    /\ [](call_failed => pc \in {"failed", "crashed"})
    /\ [][(call_failed \/ call_failed') =>
             /\ nb_calls' = nb_calls
             /\ nb_dispatch' = nb_dispatch
             /\ messages' = messages
             /\ downloads' = downloads]_vars
    /\ [][~call_failed]_vars

\* client 11 lost a model call after a tool round
C14_Witness ==
    /\ driver = "d11"
    /\ call_failed
    /\ pc = "failed"
    /\ nb_calls = 2
    /\ nb_request = 3
    /\ Len(messages) >= 5

\* C15: scroll with a direction that is not up or down in any letter case
\* returns {scrolled: false, error} without raising and leaves the page where
\* it was; with up or down in any letter case what it returns is
\* {scrolled: true, direction as given, amount} and the page has moved by the
\* amount, down or up, within the page (it raises only when the page's
\* evaluate call does, and then the page has not moved).
C15_ScrollRejectsOtherDirections ==
    /\ [](host_call.name = "scroll" =>
            IF host_call.direction \in {"down", "up", "Down", "UP"}
            THEN host_result \in
                    {HostRaised,
                     [type |-> "dict", scrolled |-> TRUE,
                      direction |-> host_call.direction, amount |-> host_call.amount]}
            ELSE host_result =
                    [type |-> "dict", scrolled |-> FALSE,
                     error |-> "Invalid direction: " \o host_call.direction])
    /\ [][host_call'.name = "scroll" =>
            LET moved == IF host_call'.direction \in {"down", "Down"}
                         THEN scroll_y + host_call'.amount
                         ELSE scroll_y - host_call'.amount
            IN  IF host_call'.direction \in {"down", "up", "Down", "UP"}
                   /\ host_result' # HostRaised
                THEN scroll_y' = (IF moved < 0 THEN 0
                                  ELSE IF moved > MaxScroll THEN MaxScroll
                                  ELSE moved)
                ELSE scroll_y' = scroll_y]_vars

\* a scrolled page was asked to scroll sideways
C15_Witness ==
    /\ host_call.name = "scroll"
    /\ host_call.direction = "sideways"
    /\ host_result.type = "dict"
    /\ ~host_result.scrolled
    /\ scroll_y = 2

\* C16: when write_file(filename, content) has written the file, what it
\* returns is a resource whose uri is artifact://{session}/{filename} and
\* whose mimeType is text/markdown for .md, text/html for .html,
\* application/json for .json and text/plain for any other name, and the
\* client has put that uri at the end of its artifact list.
C16_WriteFileReturnsTypedResource ==
    (host_call.name = "write_file" /\ host_result.type = "resource") =>
        LET name == Join(host_call.filename)
        IN  /\ host_result.uri = "artifact://" \o SESSION_ID \o "/" \o name
            /\ host_result.mimeType =
                  (CASE name = "r.md"   -> "text/markdown"
                     [] name = "p.html" -> "text/html"
                     [] name = "d.json" -> "application/json"
                     [] OTHER           -> "text/plain")
            /\ artifact_uris # <<>>
            /\ artifact_uris[Len(artifact_uris)] = host_result.uri
            /\ tool_content[1].content[1] = Json(host_result.uri)

\* write_file("r.md", ...) gave a markdown resource and its uri was recorded
C16_Witness ==
    /\ host_call.name = "write_file"
    /\ Join(host_call.filename) = "r.md"
    /\ host_result.type = "resource"
    /\ host_result.mimeType = "text/markdown"
    /\ artifact_uris = <<"artifact://s/r.md">>

\* C17 as claimed: the artifact list only grows at its end and no uri occurs
\* in it twice.
C17_EachUriRecordedOnce ==
    /\ [](\A i, j \in 1..Len(artifact_uris) :
            artifact_uris[i] = artifact_uris[j] => i = j)
    /\ [][SubSeq(artifact_uris', 1, Len(artifact_uris)) = artifact_uris]_vars

\* the uris a toolResult built by process_tool_request reports, in order
UrisIn(result) ==
    LET refs == SelectSeq(result.content,
                          LAMBDA it : it.k = "json" /\ it.v \in URIs)
    IN  [j \in 1..Len(refs) |-> refs[j].v]

\* C17 as amended: the artifact list is append-only: no step removes or
\* reorders an entry, a dispatch pass appends the uri of every resource its
\* result reports (also a uri the list already holds) and no other step
\* changes the list.
C17_TrackerIsAppendOnlyList ==
    [][(driver \in McpDrivers) =>
          IF pc = "dispatch" /\ idx <= Len(Requests) /\ nb_dispatch' # nb_dispatch
          THEN artifact_uris' =
                  artifact_uris \o UrisIn(tool_content'[Len(tool_content')])
          ELSE artifact_uris' = artifact_uris]_vars

\* the same uri was returned twice and is recorded twice
C17_Witness ==
    /\ driver \in McpDrivers
    /\ Len(artifact_uris) = 2
    /\ artifact_uris[1] = artifact_uris[2]

\* C18: at the end of a session of an MCP client the artifacts are read one
\* by one in the order of the list; a failed download is recorded for its
\* artifact and the loop goes on; the script leaves the loop only to
\* complete, once every entry has been attempted.
C18_EveryArtifactAttempted ==
    /\ [](pc = "download" =>
            /\ Len(downloads) = idx - 1
            /\ \A j \in 1..Len(downloads) : downloads[j].uri = artifact_uris[j])
    /\ []((driver \in McpDrivers /\ pc = "completed") =>
            /\ Len(downloads) = Len(artifact_uris)
            /\ \A j \in 1..Len(downloads) : downloads[j].uri = artifact_uris[j])
    /\ [][pc = "download" =>
            \/ /\ pc' = "download"
               /\ idx <= Len(artifact_uris)
               /\ Len(downloads') = Len(downloads) + 1
               /\ artifact_uris' = artifact_uris
            \/ /\ pc' = "completed"
               /\ Len(downloads) = Len(artifact_uris)]_vars

\* the first of two different artifacts failed to download, the second was
\* downloaded and the session completed
C18_Witness ==
    /\ pc = "completed"
    /\ Len(downloads) = 2
    /\ downloads[1].result = "error"
    /\ downloads[2].result = "downloaded"
    /\ downloads[1].uri # downloads[2].uri

C20_StageBOnlyAboveThreshold ==
    (driver = "d11" /\ pc = "call" /\ nb_request > 1) =>
        LET reported == IF response.usage = <<>> THEN 0 ELSE response.usage[1]
        IN  /\ processed_messages = remove_media_except_last_turn(stage_input)
            /\ (summary_path # "none") <=> (reported > 5000)
            /\ reported <= 5000 => messages = processed_messages
            /\ reported > 5000 =>
                  \E call \in SummaryCalls :
                      messages = summarize_conversation(processed_messages, call)

\* a transcript long enough to be summarized was sent as stage A left it
\* because the usage was exactly the threshold
C20_Witness ==
    /\ driver = "d11"
    /\ pc = "call"
    /\ response.usage = <<5000>>
    /\ Len(stage_input) = 7
    /\ messages = processed_messages
    /\ summary_path = "none"

\* the turn stage B synthesizes: an assistant turn that opens with the
\* bracketed summary text
IsSummaryTurn(m) ==
    /\ m.role = "assistant"
    /\ m.content # <<>>
    /\ m.content[1] = Text("[CONVERSATION SUMMARY: summary]")

\* positions of the synthesized summary turns of a transcript
SummaryTurns(msgs) == {i \in 1..Len(msgs) : IsSummaryTurn(msgs[i])}

\* C21: when stage B summarizes, the transcript handed to the next model
\* call is the first turn of its input, one synthesized assistant turn at
\* position 2, and a tail that is a suffix of the input: no turn of the
\* span in between remains and the result is strictly shorter than the input.
C21_SummarizedIsFirstSummaryTail ==
    (driver = "d11" /\ pc = "call" /\ summary_path = "summarized") =>
        LET T == processed_messages
            n == Len(messages) - 2
        IN  /\ n >= 1
            /\ messages[1] = T[1]
            /\ messages[2].role = "assistant"
            /\ SummaryTurns(messages) = {2}
            /\ \A i \in 1..Len(T) : T[i] # messages[2]
            /\ KeptTail(messages) = LastOf(T, n)
            /\ Len(messages) < Len(T)

\* client 11 summarized a transcript of seven turns down to five
C21_Witness ==
    /\ driver = "d11"
    /\ pc = "call"
    /\ summary_path = "summarized"
    /\ Len(processed_messages) = 7
    /\ Len(messages) = 5
    /\ SummaryTurns(messages) = {2}

\* C22: when the span between the first turn and the tail is empty, and in
\* particular when the transcript has at most 2K+1 turns, stage B returns
\* before the summarization call and its result equals its input.
C22_EmptyMiddleIsNoOp ==
    pc = "stage_b" =>
        /\ Len(processed_messages) <= 2 * KEEP_LAST_TURNS + 1 =>
              /\ summary_path = "short"
              /\ messages = processed_messages
        /\ Len(processed_messages) <= 1 + TailLength(processed_messages) =>
              /\ summary_path \in {"short", "nomiddle"}
              /\ messages = processed_messages
        /\ summary_path \in {"short", "nomiddle"} => messages = processed_messages

\* stage B was handed a transcript of exactly 2K+1 turns and returned it
C22_Witness ==
    /\ pc = "stage_b"
    /\ summary_path = "short"
    /\ Len(processed_messages) = 2 * KEEP_LAST_TURNS + 1
    /\ messages = processed_messages

\* user and assistant turns alternate, starting with a user turn
Alternates(msgs) ==
    \A i \in 1..Len(msgs) :
        msgs[i].role = IF i % 2 = 1 THEN "user" ELSE "assistant"

\* C25: at every main model call, in every driver and after any number of
\* iterations and compactions, the transcript starts with a user turn,
\* alternates user and assistant turns, and ends with a user turn.
C25_TranscriptAlternatesAtCall ==
    pc = "call" =>
        /\ messages # <<>>
        /\ Alternates(messages)
        /\ messages[1].role = "user"
        /\ messages[Len(messages)].role = "user"

\* a model call of client 11 on a transcript stage B has just rewritten
C25_Witness ==
    /\ driver = "d11"
    /\ pc = "call"
    /\ summary_path = "summarized"
    /\ compactions = 1
    /\ messages[2].role = "assistant"
    /\ messages[Len(messages)].role = "user"

\* C26: in client 11, when the last response reported usage above the
\* threshold and the summarization call did not fail, the transcript of the
\* next main model call has at most 2K+1 turns; so a call on a longer
\* transcript is always preceded by a response at or below the threshold or
\* by a failed summarization.
C26_CompactedTranscriptIsBounded ==
    (driver = "d11" /\ pc = "call" /\ nb_request > 1) =>
        /\ (threshold_exceeded(input_tokens) /\ summary_path # "failed") =>
              Len(messages) <= 2 * KEEP_LAST_TURNS + 1
        /\ Len(messages) > 2 * KEEP_LAST_TURNS + 1 =>
              \/ input_tokens <= SUMMARIZATION_TOKEN_THRESHOLD
              \/ summary_path = "failed"

\* the fourth call of client 11 on a transcript cut from seven turns to five
C26_Witness ==
    /\ driver = "d11"
    /\ pc = "call"
    /\ nb_request = 4
    /\ threshold_exceeded(input_tokens)
    /\ Len(stage_input) = 7
    /\ Len(messages) = 2 * KEEP_LAST_TURNS + 1

\* C27: a transcript never holds more than one synthesized summary turn;
\* when stage B summarizes a transcript that holds one from an earlier
\* compaction, that turn is turn 2, lies in the span being replaced, and the
\* result holds the new summary turn only.
C27_AtMostOneSummaryTurn ==
    /\ Cardinality(SummaryTurns(messages)) <= 1
    /\ (pc = "stage_b" /\ summary_path = "summarized") =>
          /\ SummaryTurns(messages) = {2}
          /\ SummaryTurns(processed_messages) \subseteq {2}
          /\ 2 <= Len(processed_messages) - Len(KeptTail(messages))

\* a second compaction replaced the summary turn of the first
C27_Witness ==
    /\ pc = "stage_b"
    /\ summary_path = "summarized"
    /\ compactions = 2
    /\ SummaryTurns(processed_messages) = {2}
    /\ SummaryTurns(messages) = {2}

\* C28 as claimed: every toolResult the MCP clients build carries at least
\* one content item, and the step that reads the first item of the page-info
\* result never ends the session.
C28_ToolResultNeverEmpty ==
    /\ [](\A j \in 1..Len(tool_content) :
            IsToolResult(tool_content[j]) => tool_content[j].content # <<>>)
    /\ [][(/\ driver \in McpDrivers
           /\ pc = "dispatch"
           /\ idx > Len(Requests)) => pc' # "failed"]_vars

\* the items stage A never removes
NonMedia(content) == SelectSeq(content, LAMBDA it : ~IsMedia(it))

\* C29: stage A applied to its own output changes nothing, and for any
\* input it keeps the number of turns, their roles and order, and every
\* text, toolUse and toolResult item of every turn, in order.
C29_StageAIdempotentKeepsPairing ==
    pc = "stage_a" =>
        /\ remove_media_except_last_turn(messages) = messages
        /\ Len(messages) = Len(stage_input)
        /\ \A i \in 1..Len(messages) :
              /\ messages[i].role = stage_input[i].role
              /\ RequestsOf(messages[i]) = RequestsOf(stage_input[i])
              /\ ResultsOf(messages[i]) = ResultsOf(stage_input[i])
              /\ \/ NonMedia(messages[i].content) = NonMedia(stage_input[i].content)
                 \/ /\ NonMedia(stage_input[i].content) = <<>>
                    /\ messages[i].content = <<PLACEHOLDER>>

\* stage A removed media from a transcript that holds requests and results
C29_Witness ==
    /\ pc = "stage_a"
    /\ messages # stage_input
    /\ Len(messages) >= 5
    /\ \E i \in 1..Len(messages) : ResultsOf(messages[i]) # <<>>
    /\ \E i \in 1..Len(messages) : RequestsOf(messages[i]) # <<>>

\* C30: in the scripts that start their own browser, every step that leaves
\* the try block (a stop that is not for tool use, a failed model call, an
\* effector that raises) leaves the browser closed and the automation
\* runtime stopped, and they stay so.
C30_BrowserClosedOnEveryExit ==
    /\ [][(/\ driver \in BrowserDrivers
           /\ pc \in {"call", "dispatch"}
           /\ pc' \in {"completed", "crashed"}) =>
             /\ browser = "open"
             /\ playwright = "running"
             /\ browser' = "closed"
             /\ playwright' = "stopped"]_vars
    /\ []((driver \in BrowserDrivers /\ pc \in {"completed", "crashed"}
              /\ (nb_calls > 0 \/ call_failed)) =>
             (browser = "closed" /\ playwright = "stopped"))

\* an effector raised in a script with its own browser, which is now closed
C30_Witness ==
    /\ driver \in BrowserDrivers
    /\ pc = "crashed"
    /\ raised # {}
    /\ browser = "closed"
    /\ playwright = "stopped"

\* C23 as claimed: resolving artifact://{session}/f after write_file(f, c)
\* succeeded in this session gives the whole of c, as the latest write of f
\* was given it, with the mimeType that write reported; resolving a uri whose
\* file does not exist gives an error text of type text/plain; it never raises.
C23_ArtifactReadsBackWhatWasWritten ==
    host_call.name = "get_artifact" =>
        LET name == Join(host_call.filename)
            exists == host_call.session_id = SESSION_ID /\ name \in DOMAIN last_written
        IN  /\ host_result # HostRaised
            /\ host_result.uri = "artifact://" \o host_call.session_id \o "/" \o name
            /\ (exists /\ host_call.read_ok) =>
                  /\ host_result.text = last_written[name].content
                  /\ host_result.mimeType = last_written[name].mimeType
            /\ ~exists =>
                  /\ host_result.text = <<"Error: Artifact not found: " \o name>>
                  /\ host_result.mimeType = "text/plain"

\* C24 as claimed: get_page_info returns {title, url} of the page, or
\* {"Unknown", "Unknown"} when the lookup fails, in the scripts and on the
\* server alike.
C24_PageInfoIsTitleAndUrl ==
    host_call.name = "get_page_info" =>
        host_result = IF host_call.page_ok
                      THEN [type |-> "dict", title |-> "t", url |-> "u"]
                      ELSE [type |-> "dict", title |-> "Unknown", url |-> "Unknown"]

\* C24 as amended: get_page_info of the scripts that own the page returns
\* {title, url} of the page, or {"Unknown", "Unknown"} when the lookup fails;
\* get_page_info of the server returns the text "Current page: Title: ...,
\* URL: ...", or a text that starts "Error getting page info:" when the
\* lookup fails; neither raises, and neither moves the page, touches the
\* files, the browser or the transcript.
C24_PageInfoPerOwner ==
    /\ [](host_call.name = "get_page_info" =>
            /\ host_result # HostRaised
            /\ host_call.owner = "script" =>
                  host_result = IF host_call.page_ok
                                THEN [type |-> "dict", title |-> "t", url |-> "u"]
                                ELSE [type |-> "dict", title |-> "Unknown",
                                      url |-> "Unknown"]
            /\ host_call.owner = "server" =>
                  host_result = IF host_call.page_ok
                                THEN [type |-> "str",
                                      text |-> "Current page: Title: 't', URL: 'u'"]
                                ELSE [type |-> "str",
                                      text |-> "Error getting page info: error"])
    /\ [][host_call'.name = "get_page_info" =>
            UNCHANGED <<scroll_y, artefacts, messages, tool_content, browser,
                        playwright, artifact_uris>>]_vars

\* the server's page lookup failed on a scrolled page with a file written
C24_Witness ==
    /\ host_call.name = "get_page_info"
    /\ host_call.owner = "server"
    /\ ~host_call.page_ok
    /\ host_result.type = "str"
    /\ scroll_y = 2
    /\ artefacts # <<>>

====
